---- MODULE Spec2Model ----
(***************************************************************************)
(* Model of eventlogging.py: the thread-local CorrelationID, the metadata  *)
(* envelope built by EventLogger.asJson, the JSON encoding rules of        *)
(* JSONEncoder, and TextStreamEventLogger.log writing records to a text    *)
(* stream shared by several threads.                                       *)
(*                                                                         *)
(* Python values are tagged pairs <<type name, payload>>.  JSON text is    *)
(* represented by the JSON value it denotes, again as tagged pairs.  A     *)
(* dict is a sequence of <<key, value>> pairs in insertion order.          *)
(***************************************************************************)
EXTENDS Integers, Sequences, FiniteSets, TLC

\* Threads (execution contexts) sharing one CorrelationID instance.
Contexts == {"t1", "t2", "t3"}
\* The threads that also log to the shared stream.
LogContexts == {"t1", "t2"}

\* Total number of log calls made in one behaviour.
MaxLogCalls == 2

----------------------------------------------------------------------------
\* Python values

None == <<"NoneType", "None">>
Str(s) == <<"str", s>>
PyInt(n) == <<"int", n>>
Bool(b) == <<"bool", b>>
List(xs) == <<"list", xs>>
Dict(kvs) == <<"dict", kvs>>
\* datetime.datetime(year, month, day, hour, minute, second, microsecond, tzinfo)
Datetime(c) == <<"datetime", c>>
\* an Exception with its chain of contexts, oldest first, as messages
Exc(chain) == <<"Exception", chain>>
\* a reference to an Event instance
EventRef(e) == <<"Event", e>>
\* an instance of a class the encoder knows nothing about
Object(o) == <<"object", o>>
\* a reference to the shared CorrelationID instance
CorrelationIDRef == <<"CorrelationID", "cid">>

\* bool(x) as used by `or` and `if`
Truthy(x) ==
    CASE x[1] = "NoneType" -> FALSE
      [] x[1] = "str" -> x[2] # ""
      [] OTHER -> TRUE

\* d[k] and `k in d` for a dict given as a sequence of pairs
HasKey(kvs, k) == \E i \in 1..Len(kvs) : kvs[i][1] = k
Lookup(kvs, k) == kvs[CHOOSE i \in 1..Len(kvs) : kvs[i][1] = k][2]

----------------------------------------------------------------------------
\* The arguments the callers pass

\* each thread sets None, the empty string, or an id of its own
SetArgs(t) == {None, Str(""), Str("id_" \o t)}
\* a logging thread asks for a generated id or sets an id of its own
LogSetArgs(t) == {None, Str("id_" \o t)}
\* what the injected generate_id callable returns
GeneratedIds == {"test id"}

EventIds == {"ePlain", "eObj", "eNested"}
LoggerIds == {"plain", "withCid"}

\* TestClock.datetime
TestClockDatetime == Datetime(<<2021, 5, 1, 11, 22, 33, 1234, "utc">>)
\* a naive datetime without microseconds, as a field value
FieldDatetime == Datetime(<<2020, 12, 31, 0, 0, 7, 0, "naive">>)
\* make_exception_with_stack_trace()
ChainedException == Exc(<<"first", "second", "third">>)

\* Event.type(): the name of the concrete class
type(e) ==
    CASE e = "ePlain" -> "TestEvent"
      [] e = "eObj" -> "ObjectEvent"
      [] e = "eNested" -> "ParentEvent"

\* the instance attributes the constructors of the event classes set
InitialEventDict ==
    [e \in EventIds |->
        CASE e = "ePlain" -> << <<"value_str", Str("str")>>,
                                <<"value_int", PyInt(1)>>,
                                <<"value_bool", Bool(TRUE)>>,
                                <<"exc", ChainedException>>,
                                <<"items", List(<<FieldDatetime, None>>)>> >>
          [] e = "eObj" -> << <<"handle", Object("o1")>> >>
          [] e = "eNested" -> << <<"child", EventRef("ePlain")>> >>]

----------------------------------------------------------------------------
VARIABLES
    tls,         \* CorrelationID.correlation_id: slot -> stored value
    loggers,     \* the attributes of each logger instance
    event_dict,  \* vars(event) of each event instance
    pc,          \* where each thread is inside log
    frame,       \* the locals of each thread's running log call
    sink,        \* the chunks written to the output stream, in order
    ncalls,      \* number of log calls started
    lastOp,      \* history: each thread's latest set/reset and its argument
    got,         \* history: what each thread's latest get() returned
    outcome      \* history: how each thread's latest log call ended

vars == <<tls, loggers, event_dict, pc, frame, sink, ncalls, lastOp, got, outcome>>

NoFrame == <<"noframe">>
NotCalled == <<"notcalled", "">>

----------------------------------------------------------------------------
\* Clock

\* TestClock.now
Clock_now == TestClockDatetime

----------------------------------------------------------------------------
\* CorrelationID

\* Variant: one attribute dict for the whole process instead of one per thread
LocalWithValueField_shared(t) == "t1"

\* threading.local: the attribute dict used is the calling thread's own
LocalWithValueField(t) == t

\* Variant: set stores its argument as it is, also None and ""
CorrelationID_set_verbatim(store, t, value, generated) ==
    [store EXCEPT ![LocalWithValueField(t)] = value]

\* CorrelationID.set
CorrelationID_set(store, t, value, generated) ==
    [store EXCEPT ![LocalWithValueField(t)] =
        IF Truthy(value) THEN value ELSE Str(generated)]

\* Variant: get reads the slot of the first thread whoever calls
CorrelationID_get_first(store, t) == store["t1"]

\* CorrelationID.get
CorrelationID_get(store, t) == store[LocalWithValueField(t)]

\* Variant: reset clears the value of every thread
CorrelationID_reset_all(store, t) == [u \in DOMAIN store |-> None]

\* CorrelationID.reset
CorrelationID_reset(store, t) ==
    [store EXCEPT ![LocalWithValueField(t)] = None]

----------------------------------------------------------------------------
\* JSONEncoder

Pad2(n) == IF n < 10 THEN "0" \o ToString(n) ELSE ToString(n)
Pad6(n) ==
    CASE n < 10 -> "00000" \o ToString(n)
      [] n >= 10 /\ n < 100 -> "0000" \o ToString(n)
      [] n >= 100 /\ n < 1000 -> "000" \o ToString(n)
      [] n >= 1000 /\ n < 10000 -> "00" \o ToString(n)
      [] n >= 10000 /\ n < 100000 -> "0" \o ToString(n)
      [] OTHER -> ToString(n)

\* datetime.isoformat()
isoformat(c) ==
    ToString(c[1]) \o "-" \o Pad2(c[2]) \o "-" \o Pad2(c[3]) \o "T"
    \o Pad2(c[4]) \o ":" \o Pad2(c[5]) \o ":" \o Pad2(c[6])
    \o (IF c[7] # 0 THEN "." \o Pad6(c[7]) ELSE "")
    \o (IF c[8] = "utc" THEN "+00:00" ELSE "")

\* one exception of a chain as TracebackException.format prints it
FormatOne(msg) ==
    "Traceback (most recent call last):\n  File ...\nException: " \o msg \o "\n"

RECURSIVE FormatChain(_)
FormatChain(chain) ==
    IF Len(chain) = 1 THEN FormatOne(chain[1])
    ELSE FormatChain(SubSeq(chain, 1, Len(chain) - 1))
         \o "\nDuring handling of the above exception, another exception occurred:\n\n"
         \o FormatOne(chain[Len(chain)])

\* extract_stacktrace
extract_stacktrace(exception) == FormatChain(exception[2])

Return(v) == <<"return", v>>
Raise(kind) == <<"raise", kind>>

\* Variant: a value with no rule is written as a string instead of refused
JSONEncoder_default_str(obj) ==
    IF obj[1] = "datetime" THEN Return(Str(isoformat(obj[2])))
    ELSE IF obj[1] = "Exception" THEN Return(Str(extract_stacktrace(obj)))
    ELSE Return(Str("<object>"))

\* Variant: an Event value is encoded through its attribute dict
JSONEncoder_default_vars(obj) ==
    IF obj[1] = "datetime" THEN Return(Str(isoformat(obj[2])))
    ELSE IF obj[1] = "Exception" THEN Return(Str(extract_stacktrace(obj)))
    ELSE IF obj[1] = "Event" THEN Return(Dict(event_dict[obj[2]]))
    ELSE Raise("TypeError")

\* JSONEncoder.default
JSONEncoder_default(obj) ==
    IF obj[1] = "datetime" THEN Return(Str(isoformat(obj[2])))
    ELSE IF obj[1] = "Exception" THEN Return(Str(extract_stacktrace(obj)))
    ELSE Raise("TypeError")

\* json.dumps(o, cls=JSONEncoder): the JSON value of the text, or the error
RECURSIVE dumps(_)
dumps(o) ==
    CASE o[1] = "NoneType" -> Return(<<"null", "">>)
      [] o[1] = "bool" -> Return(IF o[2] THEN <<"true", "">> ELSE <<"false", "">>)
      [] o[1] = "int" -> Return(<<"number", ToString(o[2])>>)
      [] o[1] = "str" -> Return(<<"string", o[2]>>)
      [] o[1] = "list" ->
            LET parts == [i \in 1..Len(o[2]) |-> dumps(o[2][i])]
                bad == {i \in 1..Len(o[2]) : parts[i][1] = "raise"}
            IN  IF bad # {} THEN parts[CHOOSE i \in bad : \A j \in bad : i <= j]
                ELSE Return(<<"array", [i \in 1..Len(o[2]) |-> parts[i][2]]>>)
      [] o[1] = "dict" ->
            LET parts == [i \in 1..Len(o[2]) |-> dumps(o[2][i][2])]
                bad == {i \in 1..Len(o[2]) : parts[i][1] = "raise"}
            IN  IF bad # {} THEN parts[CHOOSE i \in bad : \A j \in bad : i <= j]
                ELSE Return(<<"object",
                        [i \in 1..Len(o[2]) |-> <<o[2][i][1], parts[i][2]>>]>>)
      [] OTHER ->
            LET r == JSONEncoder_default(o)
            IN  IF r[1] = "raise" THEN r ELSE dumps(r[2])

----------------------------------------------------------------------------
\* EventLogger

\* Variant: the correlation_id key is added only once a value is stored
asJson_skip_unset(t, l, e) ==
    LET metadata == << <<"timestamp", Clock_now>>, <<"type", Str(type(e))>> >>
        updated == IF /\ Truthy(loggers[l].correlation_id)
                      /\ Truthy(CorrelationID_get(tls, t))
                   THEN Append(metadata,
                               <<"correlation_id", CorrelationID_get(tls, t)>>)
                   ELSE metadata
    IN  Dict(<< <<"metadata", Dict(updated)>>,
                <<"event", Dict(event_dict[e])>> >>)

\* EventLogger.asJson
asJson(t, l, e) ==
    LET metadata == << <<"timestamp", Clock_now>>, <<"type", Str(type(e))>> >>
        updated == IF Truthy(loggers[l].correlation_id)
                   THEN Append(metadata,
                               <<"correlation_id", CorrelationID_get(tls, t)>>)
                   ELSE metadata
    IN  Dict(<< <<"metadata", Dict(updated)>>,
                <<"event", Dict(event_dict[e])>> >>)

\* Variant: the stream puts what it is given in front
write_front(stream, chunk) == <<chunk>> \o stream

\* file.write(s): the stream appends what it is given
write(stream, chunk) == Append(stream, chunk)

\* what the thread's own latest set/reset determined (from the history)
Own(t) ==
    CASE lastOp[t][1] = "set" ->
            IF Truthy(lastOp[t][2]) THEN lastOp[t][2] ELSE Str(lastOp[t][3])
      [] OTHER -> None

----------------------------------------------------------------------------
Init ==
    /\ tls = [t \in Contexts |-> None]
    /\ loggers = [l \in LoggerIds |->
                    [correlation_id |-> IF l = "withCid" THEN CorrelationIDRef ELSE None]]
    /\ event_dict = InitialEventDict
    /\ pc = [t \in Contexts |-> "idle"]
    /\ frame = [t \in Contexts |-> NoFrame]
    /\ sink = <<>>
    /\ ncalls = 0
    /\ lastOp = [t \in Contexts |-> <<"never", None, "">>]
    /\ got = [t \in Contexts |-> NotCalled]
    /\ outcome = [t \in Contexts |-> <<"none", "none">>]

\* correlation_id.set(value) in thread t
Set(t, value) ==
    /\ pc[t] = "idle"
    /\ \E g \in GeneratedIds :
        /\ tls' = CorrelationID_set(tls, t, value, g)
        /\ lastOp' = [lastOp EXCEPT ![t] =
                        <<"set", value, IF Truthy(value) THEN "" ELSE g>>]
    /\ got' = [got EXCEPT ![t] = NotCalled]
    /\ UNCHANGED <<loggers, event_dict, pc, frame, sink, ncalls, outcome>>

\* correlation_id.get() in thread t
Get(t) ==
    /\ pc[t] = "idle"
    /\ got' = [got EXCEPT ![t] = CorrelationID_get(tls, t)]
    /\ UNCHANGED <<tls, loggers, event_dict, pc, frame, sink, ncalls, lastOp, outcome>>

\* correlation_id.reset() in thread t
Reset(t) ==
    /\ pc[t] = "idle"
    /\ tls' = CorrelationID_reset(tls, t)
    /\ lastOp' = [lastOp EXCEPT ![t] = <<"reset", None, "">>]
    /\ got' = [got EXCEPT ![t] = NotCalled]
    /\ UNCHANGED <<loggers, event_dict, pc, frame, sink, ncalls, outcome>>

\* Variant: logging generates a correlation id for the calling thread
Log_asJson_generating(t, l, e) ==
    /\ pc[t] = "idle"
    /\ ncalls < MaxLogCalls
    /\ ncalls' = ncalls + 1
    /\ tls' = CorrelationID_set(tls, t, None, "test id")
    /\ LET r == dumps(asJson(t, l, e))
       IN  IF r[1] = "raise"
           THEN /\ outcome' = [outcome EXCEPT ![t] = <<e, r[2]>>]
                /\ UNCHANGED <<pc, frame>>
           ELSE /\ pc' = [pc EXCEPT ![t] = "print"]
                /\ frame' = [frame EXCEPT ![t] =
                                [logger |-> l, event |-> e, call |-> ncalls + 1,
                                 text |-> r[2], expect |-> Own(t)]]
                /\ UNCHANGED outcome
    /\ UNCHANGED <<loggers, event_dict, sink, lastOp, got>>

\* log(event), first step: self.asJson(event) and json.dumps(..., cls=JSONEncoder),
\* both local to the thread; an error leaves log at once and reaches the caller
Log_asJson(t, l, e) ==
    /\ pc[t] = "idle"
    /\ ncalls < MaxLogCalls
    /\ ncalls' = ncalls + 1
    /\ LET r == dumps(asJson(t, l, e))
       IN  IF r[1] = "raise"
           THEN /\ outcome' = [outcome EXCEPT ![t] = <<e, r[2]>>]
                /\ UNCHANGED <<pc, frame>>
           ELSE /\ pc' = [pc EXCEPT ![t] = "print"]
                /\ frame' = [frame EXCEPT ![t] =
                                [logger |-> l, event |-> e, call |-> ncalls + 1,
                                 text |-> r[2], expect |-> Own(t)]]
                /\ UNCHANGED outcome
    /\ UNCHANGED <<tls, loggers, event_dict, sink, lastOp, got>>

\* the chunk of one write call, with who wrote it (history)
Chunk(t, kind) ==
    [kind |-> kind, data |-> IF kind = "text" THEN frame[t].text ELSE <<"newline", "">>,
     by |-> t, call |-> frame[t].call, logger |-> frame[t].logger,
     event |-> frame[t].event, expect |-> frame[t].expect]

\* log(event), second step: print writes the text to the stream
Log_print_text(t) ==
    /\ pc[t] = "print"
    /\ sink' = write(sink, Chunk(t, "text"))
    /\ pc' = [pc EXCEPT ![t] = "print_end"]
    /\ UNCHANGED <<tls, loggers, event_dict, frame, ncalls, lastOp, got, outcome>>

\* log(event), third step: print writes end="\n" in a second write call,
\* and log returns
Log_print_end(t) ==
    /\ pc[t] = "print_end"
    /\ sink' = write(sink, Chunk(t, "end"))
    /\ pc' = [pc EXCEPT ![t] = "idle"]
    /\ frame' = [frame EXCEPT ![t] = NoFrame]
    /\ outcome' = [outcome EXCEPT ![t] = <<frame[t].event, "returned">>]
    /\ UNCHANGED <<tls, loggers, event_dict, ncalls, lastOp, got>>

\* Threads that set and reset their correlation id and log events.
Next ==
    \/ \E t \in LogContexts : \E value \in LogSetArgs(t) : Set(t, value)
    \/ \E t \in LogContexts : Reset(t)
    \/ \E t \in LogContexts, l \in LoggerIds, e \in EventIds : Log_asJson(t, l, e)
    \/ \E t \in LogContexts : Log_print_text(t)
    \/ \E t \in LogContexts : Log_print_end(t)

Spec == Init /\ [][Next]_vars

\* Threads that set, read and reset their correlation id.
NextCorrelation ==
    \/ \E t \in Contexts : \E value \in SetArgs(t) : Set(t, value)
    \/ \E t \in Contexts : Get(t)
    \/ \E t \in Contexts : Reset(t)

SpecCorrelation == Init /\ [][NextCorrelation]_vars

----------------------------------------------------------------------------
\* Properties

\* the indices of the chunks holding a record's text
TextChunks == {i \in 1..Len(sink) : sink[i].kind = "text"}
\* the "metadata" and "event" objects of a written record
Meta(c) == Lookup(c.data[2], "metadata")[2]
EventObj(c) == Lookup(c.data[2], "event")[2]
\* the JSON value of a correlation id
JsonOf(v) == IF v = None THEN <<"null", "">> ELSE <<"string", v[2]>>
\* whether a CorrelationID was supplied to the logger at construction
Supplied(l) == loggers[l].correlation_id # None
\* whether some field of the event holds a value of the given type
Holds(e, tag) ==
    /\ e \in EventIds
    /\ \E i \in 1..Len(event_dict[e]) : event_dict[e][i][2][1] = tag

\* C1: whatever the interleaving of set, get and reset in several threads,
\* get() returns in each thread what that thread's own latest set or reset
\* determined, and None in a thread that never called set.
C1_Isolation ==
    \A t \in Contexts : got[t] # NotCalled => got[t] = Own(t)

C1_Witness ==
    /\ got["t1"] = Str("id_t1")
    /\ got["t2"] = Str("id_t2")
    /\ lastOp["t3"][1] = "never"
    /\ got["t3"] = None

\* C2: the correlation_id of a record logged by a logger built with a
\* CorrelationID is the value the logging thread last set, or null if it set
\* none, whatever the other threads set or reset.
C2_LoggedCorrelationId ==
    \A i \in TextChunks :
        Supplied(sink[i].logger) =>
            Lookup(Meta(sink[i]), "correlation_id") = JsonOf(sink[i].expect)

C2_Witness ==
    \E i, j \in TextChunks :
        /\ sink[i].by = "t1" /\ sink[j].by = "t2"
        /\ Lookup(Meta(sink[i]), "type") = <<"string", "TestEvent">>
        /\ HasKey(Meta(sink[i]), "correlation_id")
        /\ HasKey(Meta(sink[j]), "correlation_id")
        /\ Lookup(Meta(sink[i]), "correlation_id") = <<"string", "id_t1">>
        /\ Lookup(Meta(sink[j]), "correlation_id") = <<"string", "id_t2">>

\* C3: the text of a record and its line terminator reach the stream as one
\* unit: what follows a record's text in the stream is its own terminator.
C3_SingleUnit ==
    \A i \in TextChunks :
        i < Len(sink) =>
            /\ sink[i + 1].kind = "end"
            /\ sink[i + 1].call = sink[i].call

\* C4: after set(value), get() returns value as it is when value is a non-empty
\* string, and what the generator returned, neither None nor "", when value
\* is None or "".
C4_SetThenGet ==
    \A t \in Contexts :
        (got[t] # NotCalled /\ lastOp[t][1] = "set") =>
            IF lastOp[t][2] # None /\ lastOp[t][2] # Str("")
            THEN got[t] = lastOp[t][2]
            ELSE /\ got[t] = Str(lastOp[t][3])
                 /\ lastOp[t][3] \in GeneratedIds
                 /\ got[t] # None
                 /\ got[t] # Str("")

C4_Witness ==
    /\ lastOp["t1"] = <<"set", Str(""), "test id">>
    /\ got["t1"] = Str("test id")
    /\ lastOp["t2"] = <<"set", None, "test id">>
    /\ got["t2"] = Str("test id")
    /\ lastOp["t3"] = <<"set", Str("id_t3"), "">>
    /\ got["t3"] = Str("id_t3")

\* C5: reset() makes get() return None in the calling thread and leaves what
\* get() returns in every other thread as it was.
C5_ResetIsLocal ==
    [][\A t \in Contexts :
          Reset(t) =>
            /\ CorrelationID_get(tls', t) = None
            /\ \A u \in Contexts \ {t} :
                  CorrelationID_get(tls', u) = CorrelationID_get(tls, u)]_vars

C5_Witness ==
    /\ lastOp["t2"][1] = "reset"
    /\ got["t2"] = None
    /\ lastOp["t1"][1] = "set"
    /\ got["t1"] = Str("id_t1")

\* C6: the metadata of a record has the key correlation_id exactly when a
\* CorrelationID was supplied to the logger; its value is null when the
\* logging thread has none stored and the stored string otherwise.
C6_KeyPresence ==
    \A i \in TextChunks :
        /\ HasKey(Meta(sink[i]), "correlation_id") <=> Supplied(sink[i].logger)
        /\ (Supplied(sink[i].logger) /\ sink[i].expect = None) =>
              Lookup(Meta(sink[i]), "correlation_id") = <<"null", "">>
        /\ (Supplied(sink[i].logger) /\ sink[i].expect # None) =>
              Lookup(Meta(sink[i]), "correlation_id") = <<"string", sink[i].expect[2]>>

C6_Witness ==
    \E i, j \in TextChunks :
        /\ sink[i].logger = "plain"
        /\ sink[i].expect = Str("id_" \o sink[i].by)
        /\ ~HasKey(Meta(sink[i]), "correlation_id")
        /\ sink[j].logger = "withCid"
        /\ sink[j].expect = None
        /\ Lookup(Meta(sink[j]), "correlation_id") = <<"null", "">>

\* C7: log of an event holding a value with no serialization rule ends with
\* the encoder's error at the caller, and nothing of the call is written.
C7_EncodingErrorSurfaces ==
    /\ \A t \in Contexts :
          Holds(outcome[t][1], "object") => outcome[t][2] = "TypeError"
    /\ \A i \in 1..Len(sink) : ~Holds(sink[i].event, "object")

C7_Witness ==
    /\ outcome["t1"] = <<"eObj", "TypeError">>
    /\ ncalls = 2
    /\ Len(sink) = 2
    /\ \A i \in 1..Len(sink) : sink[i].by = "t2"

C10_LogChangesOnlySink ==
    [][(ncalls' # ncalls \/ sink' # sink) =>
          /\ event_dict' = event_dict
          /\ loggers' = loggers
          /\ \A t \in Contexts :
                CorrelationID_get(tls', t) = CorrelationID_get(tls, t)
          /\ \A t \in Contexts : pc'[t] = "idle" => frame'[t] = NoFrame]_vars

C10_Witness ==
    /\ outcome["t1"] = <<"ePlain", "returned">>
    /\ tls["t1"] = Str("id_t1")
    /\ tls["t2"] = Str("test id")
    /\ pc["t1"] = "idle"
    /\ Len(sink) = 2

====
